---- MODULE Spec2Model ----
(***************************************************************************)
(* Model of app.py: the goal and commission dashboard.                     *)
(*                                                                         *)
(* One run of the script is a sequence of steps over the module namespace  *)
(* ns (the names the script has bound so far).  The inputs of a run are    *)
(* the data frame df left by the ingestion block (lines 50-71) and the     *)
(* target_value read by st.number_input (line 37).                         *)
(*                                                                         *)
(* Number scales (Python floats are held as exact fixed-point integers):   *)
(*   valor, val_*, total_revenue : amount units                            *)
(*   comm_*, total_commission    : thousandths of an amount unit           *)
(*   rate (fraction)             : thousandths (0.015 is 15)               *)
(*   rate * 100 (percent)        : tenths of a percent (1.5% is 15)        *)
(*   achievement, progress       : hundredths of a percent, rounded down   *)
(* Every threshold the code compares an achievement with (50, 80, 100,     *)
(* 110) is a whole number of hundredths, so comparing the rounded-down     *)
(* value decides exactly as comparing the quotient itself.                 *)
(***************************************************************************)
EXTENDS Integers, Sequences, FiniteSets, TLC

\* df            the frame of paid rows left by ingestion (lines 50-71)
\* target_value  the monthly target read from the sidebar (line 37)
\* pc            the statement the script runs next
\* ns            the names bound by the processing block (lines 77-87)
\* raised        the exception that ended the run, if any
\* shown         what the page displays (lines 92-156)
\* args, ret     arguments and return value of a direct function call
VARIABLES df, target_value, pc, ns, raised, shown, args, ret

vars == <<df, target_value, pc, ns, raised, shown, args, ret>>

\* ---------------------------------------------------------------- bounds
MaxLen == 2

MaxSales == 24

\* ---------------------------------------------------------------- inputs
\* The 'tipo' cells a sheet may carry: the three categories in several
\* casings and one value that is none of them.
Tipos == {"Standard", "STANDARD", "WABA", "waba", "Trial", "Bonus"}

Amounts == {0, 5, 12, 25, 40, 55}

\* st.number_input(..., min_value=0.0): the widget never yields a negative.
TargetValues == {0, 10, 50}

Rows == [tipo : Tipos, valor : Amounts]

\* The demonstration frame used when nothing is uploaded (in thousands).
MockData ==
  << [tipo |-> "Standard", valor |-> 5], [tipo |-> "Standard", valor |-> 12],
     [tipo |-> "WABA", valor |-> 3], [tipo |-> "Trial", valor |-> 1],
     [tipo |-> "Standard", valor |-> 8], [tipo |-> "WABA", valor |-> 5] >>

\* Frames after ingestion: an uploaded sheet of up to MaxLen paid rows
\* (none at all when no row is paid or the file cannot be read), or the
\* demonstration frame.
Frames == UNION {[1..n -> Rows] : n \in 0..MaxLen} \cup {MockData}

\* Arguments for direct calls of the two commission functions.
EngineSales == 0..MaxSales

EngineTargets == {-50, -10, 0, 10, 50}

\* ------------------------------------------------------- pure functions
\* Quotient rounded toward minus infinity, for either sign of b.
FloorDiv(a, b) ==
  IF b > 0 THEN a \div b ELSE (-a) \div (-b)

\* A comparison that forgets to fold case.
str_lower_identity(s) ==
  s

\* str.lower() on the cell values of Tipos.
str_lower(s) ==
  CASE s \in {"Standard", "STANDARD"} -> "standard"
    [] s \in {"WABA", "waba"} -> "waba"
    [] s = "Trial" -> "trial"
    [] s = "Bonus" -> "bonus"
    [] OTHER -> s

RECURSIVE sum_valor(_)
sum_valor(rows) ==
  IF rows = <<>> THEN 0 ELSE Head(rows).valor + sum_valor(Tail(rows))

\* df[df['tipo'].astype(str).str.lower() == key]['valor'].sum()
sum_by_tipo(frame, key) ==
  sum_valor(SelectSeq(frame, LAMBDA r : str_lower(r.tipo) = key))

\* The bands closed on the wrong side.
tier_rate_open_closed(achievement) ==
  IF 5000 < achievement /\ achievement <= 8000 THEN 15
  ELSE IF 8000 < achievement /\ achievement <= 10000 THEN 20
  ELSE IF 10000 < achievement /\ achievement <= 11000 THEN 40
  ELSE IF achievement > 11000 THEN 80
  ELSE 0

\* The third band's rate mistyped as 0.004.
tier_rate_dip(achievement) ==
  IF 5000 <= achievement /\ achievement < 8000 THEN 15
  ELSE IF 8000 <= achievement /\ achievement < 10000 THEN 20
  ELSE IF 10000 <= achievement /\ achievement < 11000 THEN 4
  ELSE IF achievement >= 11000 THEN 80
  ELSE 0

\* The rate chosen by the if/elif chain, in thousandths.
tier_rate(achievement) ==
  IF 5000 <= achievement /\ achievement < 8000 THEN 15
  ELSE IF 8000 <= achievement /\ achievement < 10000 THEN 20
  ELSE IF 10000 <= achievement /\ achievement < 11000 THEN 40
  ELSE IF achievement >= 11000 THEN 80
  ELSE 0

\* The value the function returns: a bare float when the target is zero,
\* a tuple (commission, rate percent, achievement) otherwise.
calculate_commission_standard(sales_value, target) ==
  IF target = 0 THEN [type |-> "float", value |-> 0]
  ELSE LET achievement == FloorDiv(sales_value * 10000, target)
           rate == tier_rate(achievement)
       IN [type |-> "tuple", items |-> <<sales_value * rate, rate, achievement>>]

calculate_commission_waba(sales_value) ==
  sales_value * 100

\* ----------------------------------------------------------- script run
Bind(name, value) == (name :> value) @@ ns

Init ==
  /\ df \in Frames
  /\ target_value \in TargetValues
  /\ pc = "process"
  /\ ns = <<>>
  /\ raised = "none"
  /\ shown = <<>>
  /\ args = <<>>
  /\ ret = <<>>

\* The sums taken without testing df.empty.
SplitByTipo_unguarded ==
  /\ pc = "process"
  /\ ns' = ("val_standard" :> sum_by_tipo(df, "standard"))
           @@ ("val_waba" :> sum_by_tipo(df, "waba"))
           @@ ("val_trial" :> sum_by_tipo(df, "trial"))
  /\ pc' = "revenue"
  /\ UNCHANGED <<df, target_value, raised, shown, args, ret>>

\* if not df.empty: the three per-category sums.
SplitByTipo ==
  /\ pc = "process"
  /\ df # <<>>
  /\ ns' = ("val_standard" :> sum_by_tipo(df, "standard"))
           @@ ("val_waba" :> sum_by_tipo(df, "waba"))
           @@ ("val_trial" :> sum_by_tipo(df, "trial"))
  /\ pc' = "revenue"
  /\ UNCHANGED <<df, target_value, raised, shown, args, ret>>

\* else: only the warning is shown; nothing is computed.
ShowNoSales ==
  /\ pc = "process"
  /\ df = <<>>
  /\ shown' = [warning |-> "Nenhuma venda encontrada"]
  /\ pc' = "done"
  /\ UNCHANGED <<df, target_value, ns, raised, args, ret>>

\* Trial left out of the total.
ComputeRevenue_no_trial ==
  /\ pc = "revenue"
  /\ LET total == ns.val_standard + ns.val_waba
     IN ns' = ("total_revenue" :> total)
              @@ ("progress_percent" :>
                    IF target_value > 0 THEN FloorDiv(total * 10000, target_value) ELSE 0)
              @@ ns
  /\ pc' = "comm_standard"
  /\ UNCHANGED <<df, target_value, raised, shown, args, ret>>

\* total_revenue and progress_percent.
ComputeRevenue ==
  /\ pc = "revenue"
  /\ LET total == ns.val_standard + ns.val_waba + ns.val_trial
     IN ns' = ("total_revenue" :> total)
              @@ ("progress_percent" :>
                    IF target_value > 0 THEN FloorDiv(total * 10000, target_value) ELSE 0)
              @@ ns
  /\ pc' = "comm_standard"
  /\ UNCHANGED <<df, target_value, raised, shown, args, ret>>

\* The tier looked up from the overall revenue instead of Standard alone.
UnpackCommissionStandard_overall ==
  /\ pc = "comm_standard"
  /\ LET r == calculate_commission_standard(ns.total_revenue, target_value)
     IN IF r.type = "tuple" /\ Len(r.items) = 3
        THEN /\ ns' = ("comm_standard" :> r.items[1])
                      @@ ("rate_standard" :> r.items[2])
                      @@ ("achievement" :> r.items[3])
                      @@ ns
             /\ pc' = "comm_waba"
             /\ UNCHANGED raised
        ELSE /\ raised' = "TypeError"
             /\ pc' = "error"
             /\ UNCHANGED ns
  /\ UNCHANGED <<df, target_value, shown, args, ret>>

\* comm_standard, rate_standard, achievement = calculate_commission_standard(...)
\* Unpacking a float raises TypeError and ends the run.
UnpackCommissionStandard ==
  /\ pc = "comm_standard"
  /\ LET r == calculate_commission_standard(ns.val_standard, target_value)
     IN IF r.type = "tuple" /\ Len(r.items) = 3
        THEN /\ ns' = ("comm_standard" :> r.items[1])
                      @@ ("rate_standard" :> r.items[2])
                      @@ ("achievement" :> r.items[3])
                      @@ ns
             /\ pc' = "comm_waba"
             /\ UNCHANGED raised
        ELSE /\ raised' = "TypeError"
             /\ pc' = "error"
             /\ UNCHANGED ns
  /\ UNCHANGED <<df, target_value, shown, args, ret>>

AssignCommissionWaba ==
  /\ pc = "comm_waba"
  /\ ns' = Bind("comm_waba", calculate_commission_waba(ns.val_waba))
  /\ pc' = "total"
  /\ UNCHANGED <<df, target_value, raised, shown, args, ret>>

\* Trial paid at the WABA rate and added to the total.
AssignTotalCommission_with_trial ==
  /\ pc = "total"
  /\ ns' = Bind("total_commission",
                ns.comm_standard + ns.comm_waba + calculate_commission_waba(ns.val_trial))
  /\ pc' = "dashboard"
  /\ UNCHANGED <<df, target_value, raised, shown, args, ret>>

AssignTotalCommission ==
  /\ pc = "total"
  /\ ns' = Bind("total_commission", ns.comm_standard + ns.comm_waba)
  /\ pc' = "dashboard"
  /\ UNCHANGED <<df, target_value, raised, shown, args, ret>>

\* The KPI row and the progress banner.
Dashboard ==
  /\ pc = "dashboard"
  /\ shown' = [faturamento |-> ns.total_revenue,
               progresso |-> ns.progress_percent,
               comissao |-> ns.total_commission,
               taxa |-> ns.rate_standard,
               vendas_pagas |-> Len(df),
               banner |-> IF ns.progress_percent >= 10000 THEN "meta batida"
                          ELSE IF ns.progress_percent >= 8000 THEN "quase la"
                          ELSE "continue"]
  /\ pc' = "done"
  /\ UNCHANGED <<df, target_value, ns, raised, args, ret>>

Next ==
  \/ SplitByTipo
  \/ ShowNoSales
  \/ ComputeRevenue
  \/ UnpackCommissionStandard
  \/ AssignCommissionWaba
  \/ AssignTotalCommission
  \/ Dashboard

Spec == Init /\ [][Next]_vars

\* ------------------------------------------ direct calls of the functions
InitEngine ==
  /\ df = <<>>
  /\ target_value = 0
  /\ pc = "call"
  /\ ns = <<>>
  /\ raised = "none"
  /\ shown = <<>>
  /\ args \in [sales_value : EngineSales, target_value : EngineTargets]
  /\ ret = <<>>

CallCommissionStandard ==
  /\ pc = "call"
  /\ ret' = calculate_commission_standard(args.sales_value, args.target_value)
  /\ pc' = "returned_standard"
  /\ UNCHANGED <<df, target_value, ns, raised, shown, args>>

CallCommissionWaba ==
  /\ pc = "call"
  /\ ret' = [type |-> "float", value |-> calculate_commission_waba(args.sales_value)]
  /\ pc' = "returned_waba"
  /\ UNCHANGED <<df, target_value, ns, raised, shown, args>>

NextEngine ==
  \/ CallCommissionStandard
  \/ CallCommissionWaba

SpecEngine == InitEngine /\ [][NextEngine]_vars

\* ------------------------------------------------------------ properties
Bound(name) == name \in DOMAIN ns

Finished == pc \in {"done", "error"}

\* C1: for a positive target exactly one rate applies, chosen by closed-open
\* bands of Standard revenue over target: below 50% none, [50,80) 1.5%,
\* [80,100) 2.0%, [100,110) 4.0%, 110% and above 8.0%.
C1_TierBands ==
  (Bound("rate_standard") /\ target_value > 0) =>
    LET s == 100 * ns.val_standard
        t == target_value
        r == ns.rate_standard
    IN /\ (s < 50 * t) => r = 0
       /\ (50 * t <= s /\ s < 80 * t) => r = 15
       /\ (80 * t <= s /\ s < 100 * t) => r = 20
       /\ (100 * t <= s /\ s < 110 * t) => r = 40
       /\ (110 * t <= s) => r = 80

C1_AtEighty ==
  /\ Bound("rate_standard")
  /\ target_value > 0
  /\ 100 * ns.val_standard = 80 * target_value
  /\ ns.rate_standard = 20

\* C2: with a zero target and at least one record the run ends without an
\* error, with progress, Standard achievement, rate and commission all zero.
C2_ZeroTargetCompletes ==
  (Finished /\ target_value = 0 /\ df # <<>>) =>
    /\ raised = "none"
    /\ pc = "done"
    /\ ns.progress_percent = 0
    /\ ns.achievement = 0
    /\ ns.rate_standard = 0
    /\ ns.comm_standard = 0

\* C3: a call with a negative target is rejected with InvalidConfiguration
\* and returns no value.
C3_NegativeTargetRejected ==
  (pc = "returned_standard" /\ args.target_value < 0) =>
    (ret.type = "raise" /\ ret.value = "InvalidConfiguration")

\* C4: for a positive target the Standard commission is Standard revenue
\* times the rate of the band that Standard revenue alone reaches against
\* the target, whatever the WABA and Trial revenue.
C4_StandardOnly ==
  (Bound("comm_standard") /\ target_value > 0) =>
    LET s == ns.val_standard
        t == target_value
        a == ns.achievement
    IN /\ a * t <= s * 10000 /\ s * 10000 < (a + 1) * t
       /\ ns.rate_standard = (IF a < 5000 THEN 0 ELSE IF a < 8000 THEN 15
                              ELSE IF a < 10000 THEN 20 ELSE IF a < 11000 THEN 40
                              ELSE 80)
       /\ ns.comm_standard = s * ns.rate_standard
       /\ (s = 17 /\ t = 50) =>
            (a = 3400 /\ ns.rate_standard = 0 /\ ns.comm_standard = 0)
       /\ (s = 45 /\ t = 50) =>
            (a = 9000 /\ ns.rate_standard = 20 /\ ns.comm_standard = 900)
       /\ (s = 60 /\ t = 50) =>
            (a = 12000 /\ ns.rate_standard = 80 /\ ns.comm_standard = 4800)

C4_OverallInHigherBand ==
  /\ Bound("comm_standard")
  /\ target_value = 50
  /\ ns.val_standard = 40
  /\ ns.progress_percent >= 10000
  /\ ns.rate_standard = 20
  /\ ns.comm_standard = 800

\* C5: whenever a total commission is produced it is the Standard commission
\* plus the WABA commission, and it is the total the same computation gives
\* for the frame with any further Trial sale in it.
C5_TotalIsStandardPlusWaba ==
  Bound("total_commission") =>
    /\ ns.total_commission = ns.comm_standard + ns.comm_waba
    /\ \A v \in Amounts :
         LET more == Append(df, [tipo |-> "Trial", valor |-> v])
         IN ns.total_commission =
              calculate_commission_standard(sum_by_tipo(more, "standard"),
                                            target_value).items[1]
              + calculate_commission_waba(sum_by_tipo(more, "waba"))

C5_AllThreeCategories ==
  /\ pc = "done"
  /\ Bound("total_commission")
  /\ ns.val_trial > 0
  /\ ns.comm_standard > 0
  /\ ns.comm_waba > 0

\* C6: every run over a non-empty record set, whatever the target (zero
\* included), ends with a WABA commission of exactly 10% of WABA revenue.
C6_WabaFlatForEveryTarget ==
  (Finished /\ df # <<>>) =>
    (Bound("comm_waba") /\ ns.comm_waba = 100 * ns.val_waba)

\* C7: total revenue is the sum of the three category totals, none of which
\* is negative, and for a positive target the overall achievement is total
\* revenue over target, as a percentage.
C7_RevenueSum ==
  Bound("total_revenue") =>
    /\ ns.total_revenue = ns.val_standard + ns.val_waba + ns.val_trial
    /\ ns.val_standard >= 0 /\ ns.val_waba >= 0 /\ ns.val_trial >= 0
    /\ (target_value > 0) =>
         /\ ns.progress_percent * target_value <= ns.total_revenue * 10000
         /\ ns.total_revenue * 10000 < (ns.progress_percent + 1) * target_value

C7_ThreePositiveTotals ==
  /\ Bound("progress_percent")
  /\ target_value > 0
  /\ ns.val_standard > 0 /\ ns.val_waba > 0 /\ ns.val_trial > 0
  /\ ns.progress_percent > 0

\* C8 as stated: an empty record set still yields a result, every figure of
\* which is zero, and no error.
C8_EmptyYieldsZeros ==
  (Finished /\ df = <<>>) =>
    /\ raised = "none"
    /\ \A n \in {"val_standard", "val_waba", "val_trial", "total_revenue",
                 "progress_percent", "comm_standard", "comm_waba",
                 "total_commission"} : Bound(n) /\ ns[n] = 0

\* C8 as amended: an empty record set raises no error for any target, zero
\* included, but no figure is computed; only the warning is shown.
C8_EmptyNoResult ==
  (df = <<>> /\ pc # "process") =>
    /\ pc = "done"
    /\ raised = "none"
    /\ ns = <<>>
    /\ DOMAIN shown = {"warning"}

C8_EmptyZeroTargetDone ==
  /\ df = <<>>
  /\ target_value = 0
  /\ pc = "done"

\* C9: each category total is the sum of the amounts of exactly the rows
\* whose tipo is that category in any casing; a row of another tipo adds
\* nothing to any total but is counted among the rows reported.
C9_CategorySums ==
  LET Is(r, names) == r.tipo \in names
      sums[i \in 0..Len(df)] ==
        IF i = 0 THEN [st |-> 0, wa |-> 0, tr |-> 0]
        ELSE [st |-> sums[i-1].st
                     + (IF Is(df[i], {"Standard", "STANDARD", "standard"})
                        THEN df[i].valor ELSE 0),
              wa |-> sums[i-1].wa
                     + (IF Is(df[i], {"WABA", "waba", "Waba"})
                        THEN df[i].valor ELSE 0),
              tr |-> sums[i-1].tr
                     + (IF Is(df[i], {"Trial", "TRIAL", "trial"})
                        THEN df[i].valor ELSE 0)]
      all == sums[Len(df)]
  IN /\ Bound("val_standard") =>
          /\ ns.val_standard = all.st
          /\ ns.val_waba = all.wa
          /\ ns.val_trial = all.tr
     /\ Bound("total_revenue") => ns.total_revenue = all.st + all.wa + all.tr
     /\ (pc = "done" /\ df # <<>>) => shown.vendas_pagas = Len(df)

C9_OtherTipoAndUpperCase ==
  /\ pc = "done"
  /\ \E i \in 1..Len(df) : df[i].tipo = "Bonus" /\ df[i].valor > 0
  /\ \E i \in 1..Len(df) : df[i].tipo = "STANDARD" /\ df[i].valor > 0
  /\ ns.val_standard > 0
  /\ shown.vendas_pagas = Len(df)

\* C10: for a positive target the Standard commission never falls as
\* Standard revenue grows, across every band, and never exceeds 8% of it.
C10_Monotonic ==
  (Bound("comm_standard") /\ target_value > 0) =>
    /\ ns.comm_standard <= 80 * ns.val_standard
    /\ \A a \in 0..ns.val_standard :
         calculate_commission_standard(a, target_value).items[1] <= ns.comm_standard

C10_TopBand ==
  /\ Bound("comm_standard")
  /\ target_value > 0
  /\ 100 * ns.val_standard >= 110 * target_value
  /\ ns.comm_standard = 80 * ns.val_standard

====
